---- MODULE Spec2Model ----
(***************************************************************************)
(* DocuAPI (ozxc44/docuapi): static HTML documentation generated from an   *)
(* OpenAPI/Swagger document.                                               *)
(*                                                                         *)
(* Two specifications over one set of variables:                           *)
(*   SpecRender  the pure functions of src/src/generator.js (generateHTML, *)
(*               generateSearchIndex, getCSS, escapeHtml, slugify) applied *)
(*               to a decoded document and render options drawn from       *)
(*               bounded sets;                                             *)
(*   Spec        one CLI invocation (src/src/cli.js, src/unnamed/part_000) *)
(*               running generateDocs over its inputs against a file       *)
(*               system.                                                   *)
(*                                                                         *)
(* Representation.  A JavaScript string is a sequence of UTF-16 code       *)
(* units, each written as a one-character TLA+ string (two code units     *)
(* that ASCII cannot spell are written "U+0130" and "U+0307").  The text  *)
(* a template literal contributes is kept as one multi-character token per *)
(* literal fragment, so generated text is a sequence whose elements are    *)
(* either a template fragment or one code unit of interpolated data.       *)
(* A JavaScript object is the sequence of its entries in Object.entries    *)
(* order.                                                                  *)
(***************************************************************************)
EXTENDS Integers, Sequences, FiniteSets, TLC

(***************************************************************************)
(* Bounds of the model.                                                    *)
(***************************************************************************)
MaxPaths == 2

MaxMethods == 2

MaxArgs == 3

(***************************************************************************)
(* JavaScript values that are a string or undefined.                       *)
(***************************************************************************)
Undefined == [t |-> "undefined", s |-> <<>>]

Str(s) == [t |-> "string", s |-> s]

\* ToBoolean of a string-or-undefined value: undefined and '' are falsy.
Truthy(v) == v.t = "string" /\ v.s # <<>>

\* a || b
JsOr(a, b) == IF Truthy(a) THEN a ELSE b

(***************************************************************************)
(* Sequence helpers.                                                       *)
(***************************************************************************)
RECURSIVE Flatten(_)
\* Array.prototype.join(''): the concatenation of a sequence of texts.
Flatten(ss) == IF ss = <<>> THEN <<>> ELSE Head(ss) \o Flatten(Tail(ss))

RECURSIVE ReplaceAll(_, _, _)
\* String.prototype.replace(/c/g, r): every code unit c becomes the text r.
ReplaceAll(s, c, r) ==
  IF s = <<>> THEN <<>>
  ELSE (IF Head(s) = c THEN r ELSE <<Head(s)>>) \o ReplaceAll(Tail(s), c, r)

\* String.prototype.startsWith for a one-unit prefix.
StartsWith(s, c) == Len(s) >= 1 /\ s[1] = c

\* t occurs in s as a contiguous run.
Occurs(t, s) ==
  \E i \in 0..(Len(s) - Len(t)) : \A j \in 1..Len(t) : s[i + j] = t[j]

\* The number of positions of s that hold the element x.
Count(x, s) == Cardinality({i \in 1..Len(s) : s[i] = x})

(***************************************************************************)
(* escapeHtml (generator.js 421-429).                                      *)
(***************************************************************************)
EntAmp == <<"&", "a", "m", "p", ";">>

EntLt == <<"&", "l", "t", ";">>

EntGt == <<"&", "g", "t", ";">>

EntQuot == <<"&", "q", "u", "o", "t", ";">>

EntApos == <<"&", "#", "0", "3", "9", ";">>

escapeHtml(v) ==
  IF ~Truthy(v) THEN <<>>
  ELSE ReplaceAll(ReplaceAll(ReplaceAll(ReplaceAll(ReplaceAll(v.s,
         "&", EntAmp), "<", EntLt), ">", EntGt), "\"", EntQuot), "'", EntApos)

(***************************************************************************)
(* slugify (generator.js 431-433).                                         *)
(***************************************************************************)
\* String.prototype.toLowerCase on one code unit.  U+0130 (capital I with
\* dot above) lowercases to the two units "i" U+0307.
LowerUnit(c) ==
  CASE c = "A" -> <<"a">>
    [] c = "U" -> <<"u">>
    [] c = "U+0130" -> <<"i", "U+0307">>
    [] OTHER -> <<c>>

RECURSIVE toLowerCase(_)
toLowerCase(s) ==
  IF s = <<>> THEN <<>> ELSE LowerUnit(Head(s)) \o toLowerCase(Tail(s))

\* The code units the class [a-z0-9] matches, among those the model uses.
AlnumLower ==
  {"a", "b", "c", "d", "e", "f", "g", "h", "i", "j", "k", "l", "m", "n", "o",
   "p", "q", "r", "s", "t", "u", "v", "w", "x", "y", "z",
   "0", "1", "2", "3", "4", "5", "6", "7", "8", "9"}

\* A mutation of slugify: the string is not lowercased first.
slugifyKeepsCase(s) ==
  [i \in 1..Len(s) |-> IF s[i] \in AlnumLower THEN s[i] ELSE "-"]

slugify(s) ==
  LET low == toLowerCase(s)
  IN  [i \in 1..Len(low) |-> IF low[i] \in AlnumLower THEN low[i] ELSE "-"]

\* String.prototype.toUpperCase on one code unit, for the units of the
\* method names the model uses.
UpperUnit(c) ==
  CASE c = "g" -> "G" [] c = "e" -> "E" [] c = "t" -> "T"
    [] c = "p" -> "P" [] c = "o" -> "O" [] c = "s" -> "S"
    [] c = "a" -> "A" [] c = "u" -> "U"
    [] OTHER -> c

toUpperCase(s) == [i \in 1..Len(s) |-> UpperUnit(s[i])]

(***************************************************************************)
(* String constants of generator.js that pass through escapeHtml.          *)
(***************************************************************************)
\* 'API Documentation' (generator.js 41, 100)
DefaultTitle ==
  Str(<<"A", "P", "I", " ", "D", "o", "c", "u", "m", "e", "n", "t", "a", "t",
        "i", "o", "n">>)

\* '1.0.0' (generator.js 101)
DefaultVersion == Str(<<"1", ".", "0", ".", "0">>)

\* 'string' (generator.js 177)
DefaultParamType == Str(<<"s", "t", "r", "i", "n", "g">>)

\* '-' (generator.js 180)
DefaultParamDescription == Str(<<"-">>)

\* JSON.stringify({}, null, 2) (generator.js 189)
EmptyObjectJson == Str(<<"{", "}">>)

(***************************************************************************)
(* The decoded document (spec.md section 3).  A value that may be missing  *)
(* carries a `present` flag; a schema is kept as the text JSON.stringify   *)
(* (schema, null, 2) gives for it.                                         *)
(***************************************************************************)
NoContact == [present |-> FALSE, email |-> Undefined, url |-> Undefined]

NoInfo ==
  [present |-> FALSE, title |-> Undefined, version |-> Undefined,
   description |-> Undefined, contact |-> NoContact]

NoSchema == [present |-> FALSE, text |-> <<>>]

NoRequestBody == [present |-> FALSE, jsonSchema |-> NoSchema]

NoParameters == [present |-> FALSE, items |-> <<>>]

NoResponses == [present |-> FALSE, entries |-> <<>>]

NoPaths == [kind |-> "undefined", entries |-> <<>>]

NoComponents == [present |-> FALSE, schemas |-> <<>>]

\* The value the JSON text `null` decodes to.
NullDoc ==
  [isNull |-> TRUE, info |-> NoInfo, paths |-> NoPaths,
   components |-> NoComponents]

\* spec.paths || {}
PathEntries(spec) ==
  IF spec.paths.kind = "object" THEN spec.paths.entries ELSE <<>>

\* details.responses || {}
ResponseEntries(details) ==
  IF details.responses.present THEN details.responses.entries ELSE <<>>

(***************************************************************************)
(* generateHTML (generator.js 81-233).  Render options: theme, logo and    *)
(* favicon are opaque names kept whole ("" stands for null), title is a    *)
(* string value.  The result is the text, or a thrown TypeError.           *)
(***************************************************************************)
Thrown(e) == [ok |-> FALSE, error |-> e, value |-> <<>>]

Returned(v) == [ok |-> TRUE, error |-> "", value |-> v]

\* A mutation of ResponseClass: server is for the codes that start with 5
\* and client for the rest.
ResponseClassFiveIsServer(code) ==
  IF StartsWith(code, "2") THEN "success"
  ELSE IF StartsWith(code, "5") THEN "server"
  ELSE "client"

\* generator.js 194: the class of a response block.
ResponseClass(code) ==
  IF StartsWith(code, "2") THEN "success"
  ELSE IF StartsWith(code, "4") THEN "client"
  ELSE "server"

\* generator.js 108-119: one path of the table of contents.
TocPath(entry) ==
  <<"<li><a href=\"#">> \o slugify(entry.path) \o <<"\">">>
    \o escapeHtml(Str(entry.path)) \o <<"</a><ul>">>
    \o Flatten([j \in 1..Len(entry.methods) |->
         <<"<li class=\"method-">> \o entry.methods[j].method
           \o <<"\"><a href=\"#">> \o slugify(entry.path) \o <<"-">>
           \o entry.methods[j].method \o <<"\">">>
           \o toUpperCase(entry.methods[j].method) \o <<"</a></li>">>])
    \o <<"</ul></li>">>

\* generator.js 174-182: one row of the parameter table.
ParamRow(param) ==
  <<"<tr><td><code>">> \o escapeHtml(param.name)
    \o <<"</code></td><td>">>
    \o escapeHtml(JsOr(param.schemaType, DefaultParamType))
    \o <<"</td><td>">> \o escapeHtml(param.in)
    \o <<"</td><td>">> \o <<IF param.required THEN "Yes" ELSE "No">>
    \o <<"</td><td>">>
    \o escapeHtml(JsOr(param.description, DefaultParamDescription))
    \o <<"</td></tr>">>

\* generator.js 161-185
ParamsBlock(details) ==
  IF details.parameters.present /\ Len(details.parameters.items) > 0
  THEN <<"<h3>Parameters</h3><table class=\"params\"><tbody>">>
         \o Flatten([i \in 1..Len(details.parameters.items) |->
              ParamRow(details.parameters.items[i])])
         \o <<"</tbody></table>">>
  ELSE <<>>

\* generator.js 187-190
RequestBodyBlock(details) ==
  IF details.requestBody.present
  THEN <<"<h3>Request Body</h3><pre><code class=\"language-json\">">>
         \o escapeHtml(IF details.requestBody.jsonSchema.present
                       THEN Str(details.requestBody.jsonSchema.text)
                       ELSE EmptyObjectJson)
         \o <<"</code></pre>">>
  ELSE <<>>

\* generator.js 193-200: one response block.
ResponseBlock(code, response) ==
  <<"<div class=\"response response-">> \o <<ResponseClass(code)>>
    \o <<"\"><h4>">> \o code \o <<" ">>
    \o escapeHtml(JsOr(response.description, Str(<<>>))) \o <<"</h4>">>
    \o (IF response.jsonSchema.present
        THEN <<"<pre><code class=\"language-json\">">>
               \o escapeHtml(Str(response.jsonSchema.text))
               \o <<"</code></pre>">>
        ELSE <<>>)
    \o <<"</div>">>

\* generator.js 202-208
TryItOutBlock(path, method, tryItOut) ==
  IF tryItOut
  THEN <<"<div class=\"try-it-out\"><h4>Try It Out</h4><button onclick=\"tryItOut('">>
         \o method \o <<"', '">> \o path
         \o <<"')\">Send Request</button><pre id=\"response-">>
         \o slugify(path) \o <<"-">> \o method
         \o <<"\" class=\"response-output hidden\"></pre></div>">>
  ELSE <<>>

\* generator.js 151-210: the block of one (path, method) pair.
EndpointBlock(path, method, details, tryItOut) ==
  <<"<div id=\"">> \o slugify(path) \o <<"-">> \o method
    \o <<"\" class=\"endpoint method-">> \o method
    \o <<"\"><span class=\"method\">">> \o toUpperCase(method)
    \o <<"</span><span class=\"path\">">> \o escapeHtml(Str(path))
    \o <<"</span><span class=\"summary\">">>
    \o escapeHtml(JsOr(details.summary, JsOr(details.description, Str(<<>>))))
    \o <<"</span>">>
    \o (IF Truthy(details.description)
        THEN <<"<p class=\"description\">">>
               \o escapeHtml(details.description) \o <<"</p>">>
        ELSE <<>>)
    \o ParamsBlock(details)
    \o RequestBodyBlock(details)
    \o <<"<h3>Responses</h3>">>
    \o Flatten([i \in 1..Len(ResponseEntries(details)) |->
         ResponseBlock(ResponseEntries(details)[i].code,
                       ResponseEntries(details)[i].response)])
    \o TryItOutBlock(path, method, tryItOut)
    \o <<"</div>">>

\* A mutation of EndpointGroup: the methods of the path are rendered from
\* the last to the first.
EndpointGroupLastFirst(entry, tryItOut) ==
  <<"<div id=\"">> \o slugify(entry.path)
    \o <<"\" class=\"endpoint-group\"><h2>">>
    \o escapeHtml(Str(entry.path)) \o <<"</h2>">>
    \o Flatten([j \in 1..Len(entry.methods) |->
         EndpointBlock(entry.path,
                       entry.methods[Len(entry.methods) + 1 - j].method,
                       entry.methods[Len(entry.methods) + 1 - j].details,
                       tryItOut)])
    \o <<"</div>">>

\* generator.js 147-212: the group of one path.
EndpointGroup(entry, tryItOut) ==
  <<"<div id=\"">> \o slugify(entry.path)
    \o <<"\" class=\"endpoint-group\"><h2>">>
    \o escapeHtml(Str(entry.path)) \o <<"</h2>">>
    \o Flatten([j \in 1..Len(entry.methods) |->
         EndpointBlock(entry.path, entry.methods[j].method,
                       entry.methods[j].details, tryItOut)])
    \o <<"</div>">>

\* generator.js 137-142
ContactBlock(info) ==
  IF info.present /\ info.contact.present
  THEN <<"<p class=\"contact\">">>
         \o (IF Truthy(info.contact.email)
             THEN <<"<a href=\"mailto:">> \o info.contact.email.s
                    \o <<"\">">> \o escapeHtml(info.contact.email)
                    \o <<"</a>">>
             ELSE <<>>)
         \o (IF Truthy(info.contact.url)
             THEN <<" | <a href=\"">> \o info.contact.url.s
                    \o <<"\" target=\"_blank\">">>
                    \o escapeHtml(info.contact.url) \o <<"</a>">>
             ELSE <<>>)
         \o <<"</p>">>
  ELSE <<>>

\* generator.js 215-225
SchemasSection(components) ==
  IF components.present
  THEN <<"<section class=\"schemas\"><h2>Schemas</h2>">>
         \o Flatten([i \in 1..Len(components.schemas) |->
              <<"<div class=\"schema\"><h3>">>
                \o escapeHtml(Str(components.schemas[i].name))
                \o <<"</h3><pre><code class=\"language-json\">">>
                \o escapeHtml(Str(components.schemas[i].text))
                \o <<"</code></pre></div>">>])
         \o <<"</section>">>
  ELSE <<>>

generateHTML(spec, options) ==
  IF spec.isNull THEN Thrown("TypeError")
  ELSE Returned(
    <<"<!DOCTYPE html><html lang=\"en\"><head><title>">>
      \o escapeHtml(options.title) \o <<"</title>">>
      \o (IF options.favicon # ""
          THEN <<"<link rel=\"icon\" href=\"", options.favicon, "\">">>
          ELSE <<>>)
      \o <<"<link rel=\"stylesheet\" href=\"/assets/style.css\"></head><body class=\"theme-">>
      \o <<options.theme>>
      \o <<"\"><div class=\"container\"><aside class=\"sidebar\"><div class=\"sidebar-header\">">>
      \o (IF options.logo # ""
          THEN <<"<img src=\"", options.logo, "\" alt=\"Logo\" class=\"logo\">">>
          ELSE <<>>)
      \o <<"<h1>">> \o escapeHtml(JsOr(spec.info.title, DefaultTitle))
      \o <<"</h1><p class=\"version\">">>
      \o escapeHtml(JsOr(spec.info.version, DefaultVersion))
      \o <<"</p></div>">>
      \o (IF options.toc
          THEN <<"<nav class=\"toc\"><h3>Endpoints</h3><ul>">>
                 \o Flatten([i \in 1..Len(PathEntries(spec)) |->
                      TocPath(PathEntries(spec)[i])])
                 \o <<"</ul></nav>">>
          ELSE <<>>)
      \o (IF options.search
          THEN <<"<div class=\"search\"><input type=\"text\" id=\"search-input\"><div id=\"search-results\"></div></div>">>
          ELSE <<>>)
      \o <<"</aside><main class=\"content\"><header class=\"header\"><h1>">>
      \o escapeHtml(options.title)
      \o <<"</h1><p class=\"description\">">>
      \o escapeHtml(JsOr(spec.info.description, Str(<<>>)))
      \o <<"</p>">>
      \o ContactBlock(spec.info)
      \o <<"</header><section class=\"endpoints\">">>
      \o Flatten([i \in 1..Len(PathEntries(spec)) |->
           EndpointGroup(PathEntries(spec)[i], options.tryItOut)])
      \o <<"</section>">>
      \o SchemasSection(spec.components)
      \o <<"</main></div><script src=\"/assets/app.js\"></script></body></html>">>)

(***************************************************************************)
(* generateSearchIndex (generator.js 235-251).                             *)
(***************************************************************************)
\* A mutation of SearchEntry: the title does not fall back to the
\* description.
SearchEntryTitleSkipsDescription(path, method, details) ==
  [path |-> path,
   method |-> method,
   title |-> JsOr(details.summary, Str(path)).s,
   description |-> JsOr(details.description, Str(<<>>)).s,
   slug |-> slugify(path) \o <<"-">> \o method]

\* generator.js 240-246: one entry of the index.
SearchEntry(path, method, details) ==
  [path |-> path,
   method |-> method,
   title |-> JsOr(details.summary, JsOr(details.description, Str(path))).s,
   description |-> JsOr(details.description, Str(<<>>)).s,
   slug |-> slugify(path) \o <<"-">> \o method]

\* A mutation of generateSearchIndex: one entry for each path, that of its
\* first method.
generateSearchIndexFirstMethod(spec) ==
  IF spec.isNull THEN Thrown("TypeError")
  ELSE Returned([index |->
    Flatten([i \in 1..Len(PathEntries(spec)) |->
      [j \in 1..(IF Len(PathEntries(spec)[i].methods) > 0 THEN 1 ELSE 0) |->
        SearchEntry(PathEntries(spec)[i].path,
                    PathEntries(spec)[i].methods[j].method,
                    PathEntries(spec)[i].methods[j].details)]])])

generateSearchIndex(spec) ==
  IF spec.isNull THEN Thrown("TypeError")
  ELSE Returned([index |->
    Flatten([i \in 1..Len(PathEntries(spec)) |->
      [j \in 1..Len(PathEntries(spec)[i].methods) |->
        SearchEntry(PathEntries(spec)[i].path,
                    PathEntries(spec)[i].methods[j].method,
                    PathEntries(spec)[i].methods[j].details)]])])

(***************************************************************************)
(* getCSS (generator.js 253-360) and getJS (generator.js 362-419).         *)
(***************************************************************************)
\* generator.js 254-283: the own properties of `colors`.
Colors ==
  [light   |-> [bg |-> "#ffffff", text |-> "#333333", sidebar |-> "#f8f9fa",
                border |-> "#e1e4e8", code |-> "#f6f8fa"],
   dark    |-> [bg |-> "#1a1a1a", text |-> "#e6e6e6", sidebar |-> "#242424",
                border |-> "#3a3a3a", code |-> "#2d2d2d"],
   dracula |-> [bg |-> "#282a36", text |-> "#f8f8f2", sidebar |-> "#21222c",
                border |-> "#44475a", code |-> "#44475a"],
   github  |-> [bg |-> "#ffffff", text |-> "#24292f", sidebar |-> "#f6f8fa",
                border |-> "#d0d7de", code |-> "#f6f8fa"]]

\* `colors` is an object literal, so colors[theme] also finds the properties
\* it inherits from Object.prototype; these are the names of some of them.
ObjectPrototypeKeys ==
  {"constructor", "toString", "valueOf", "hasOwnProperty", "__proto__"}

\* What an inherited property holds: a function or object, truthy, with none
\* of the colour properties, so each `${c.x}` reads undefined.
InheritedValue ==
  [bg |-> "undefined", text |-> "undefined", sidebar |-> "undefined",
   border |-> "undefined", code |-> "undefined"]

\* generator.js 285: colors[theme] || colors.light
ThemeTable(theme) ==
  IF theme \in DOMAIN Colors THEN Colors[theme]
  ELSE IF theme \in ObjectPrototypeKeys THEN InheritedValue
  ELSE Colors.light

\* generator.js 287-359: the stylesheet, one token per template fragment
\* and per interpolated colour (the rules that use no colour are folded
\* into the fragments around them).
getCSS(theme) ==
  LET c == ThemeTable(theme)
  IN  <<"body { background: ", c.bg, "; color: ", c.text,
        "; } .sidebar { background: ", c.sidebar,
        "; border-right: 1px solid ", c.border,
        "; } .toc a { color: ", c.text,
        "; } .toc a:hover { background: ", c.border,
        "; } .search input { border: 1px solid ", c.border,
        "; background: ", c.bg, "; color: ", c.text,
        "; } .search-result:hover { background: ", c.border,
        "; } .header { border-bottom: 1px solid ", c.border,
        "; } .endpoint { background: ", c.code,
        "; } .path { background: ", c.border,
        "; } .params th, .params td { border-bottom: 1px solid ", c.border,
        "; } .params code { background: ", c.border,
        "; } pre { background: ", c.code, "; }">>

getJS == <<"// Syntax highlighting ... function slugify(str) { ... }">>

(***************************************************************************)
(* generateDocs, its options (generator.js 17-42).                         *)
(***************************************************************************)
\* generator.js 34-42: the options generateDocs hands to generateHTML;
\* title is title || spec.info?.title || 'API Documentation'.
HtmlOptions(spec, options) ==
  [theme |-> options.theme, logo |-> options.logo,
   favicon |-> options.favicon, tryItOut |-> options.tryItOut,
   search |-> options.search, toc |-> options.toc,
   title |-> JsOr(options.title, JsOr(spec.info.title, DefaultTitle))]

\* generator.js 18-28 with cli.js 22-29: the defaults of the options.
DefaultOptions ==
  [theme |-> "light", logo |-> "", favicon |-> "", tryItOut |-> FALSE,
   search |-> TRUE, toc |-> TRUE, title |-> Undefined]

(***************************************************************************)
(* The bounded sets the inputs are drawn from.                             *)
(***************************************************************************)
\* 'List users'
TextPlain == <<"L", "i", "s", "t", " ", "u", "s", "e", "r", "s">>

\* A text made of the five characters escapeHtml replaces.
TextHot == <<"<", "&", "'", "\"", ">">>

\* A text with an ampersand between plain units.
TextAmp == <<"a", "&", "b">>

PathUsers == <<"/", "u", "s", "e", "r", "s">>

PathHot == <<"/", "A", "'", "<">>

PathDotted == <<"/", "U+0130">>

PathKeys == {PathUsers, PathHot, PathDotted}

MethodGet == <<"g", "e", "t">>

MethodPost == <<"p", "o", "s", "t">>

MethodKeys == {MethodGet, MethodPost}

Code200 == <<"2", "0", "0">>

Code301 == <<"3", "0", "1">>

Code404 == <<"4", "0", "4">>

Code500 == <<"5", "0", "0">>

CodeDefault == <<"d", "e", "f", "a", "u", "l", "t">>

Code2XX == <<"2", "X", "X">>

\* {"type":"object"} as JSON.stringify(schema, null, 2) prints it, line
\* breaks and indentation left out.
SchemaText ==
  <<"{", "\"", "t", "y", "p", "e", "\"", ":", "\"", "o", "b", "j", "\"", "}">>

JsonSchema == [present |-> TRUE, text |-> SchemaText]

Response(description, jsonSchema) ==
  [description |-> description, jsonSchema |-> jsonSchema]

Responses(entries) == [present |-> TRUE, entries |-> entries]

\* The response mappings the model draws from, each in Object.entries
\* order (integer-like keys ascending, then the other keys).
ResponsesChoices(t) ==
  {NoResponses,
   Responses(<<>>),
   Responses(<<[code |-> Code200, response |-> Response(Str(t), NoSchema)]>>),
   Responses(<<[code |-> Code200, response |-> Response(Str(t), JsonSchema)],
               [code |-> Code301, response |-> Response(Undefined, NoSchema)],
               [code |-> Code404, response |-> Response(Str(t), NoSchema)],
               [code |-> Code500, response |-> Response(Str(<<>>), NoSchema)]>>),
   Responses(<<[code |-> Code404, response |-> Response(Undefined, NoSchema)],
               [code |-> Code2XX, response |-> Response(Str(t), NoSchema)],
               [code |-> CodeDefault,
                response |-> Response(Str(t), NoSchema)]>>)}

RequestBodyChoices ==
  {NoRequestBody,
   [present |-> TRUE, jsonSchema |-> NoSchema],
   [present |-> TRUE, jsonSchema |-> JsonSchema]}

Param(name, in, required, schemaType, description) ==
  [name |-> name, in |-> in, required |-> required,
   schemaType |-> schemaType, description |-> description]

ParametersChoices(t) ==
  {NoParameters,
   [present |-> TRUE, items |-> <<>>],
   [present |-> TRUE,
    items |-> <<Param(Str(t), Str(t), TRUE, Str(t), Str(t)),
                Param(Str(t), Str(t), FALSE, Undefined, Undefined)>>]}

Operation(summary, description, parameters, requestBody, responses) ==
  [summary |-> summary, description |-> description,
   parameters |-> parameters, requestBody |-> requestBody,
   responses |-> responses]

\* The method mappings of one path: up to MaxMethods distinct methods, in
\* any order, every one with the operation `op`.
MethodsChoices(op) ==
  {m \in UNION {[1..n -> [method : MethodKeys, details : {op}]] :
                  n \in 0..MaxMethods} :
     \A i, j \in 1..Len(m) : m[i].method = m[j].method => i = j}

\* spec.paths: missing, null, or a mapping of up to MaxPaths distinct paths
\* in any order.
PathsChoices(op) ==
  {NoPaths, [kind |-> "null", entries |-> <<>>]}
    \cup
  {[kind |-> "object", entries |-> e] :
     e \in {p \in UNION {[1..n -> [path : PathKeys,
                                   methods : MethodsChoices(op)]] :
                           n \in 0..MaxPaths} :
              \A i, j \in 1..Len(p) : p[i].path = p[j].path => i = j}}

Info(t, contact) ==
  [present |-> TRUE, title |-> Str(t), version |-> Undefined,
   description |-> Str(t), contact |-> contact]

Contact(t) == [present |-> TRUE, email |-> Str(t), url |-> Str(t)]

Components(t) ==
  [present |-> TRUE, schemas |-> <<[name |-> t, text |-> SchemaText]>>]

Document(info, paths, components) ==
  [isNull |-> FALSE, info |-> info, paths |-> paths,
   components |-> components]

SinglePath(path, method, op) ==
  [kind |-> "object",
   entries |-> <<[path |-> path,
                  methods |-> <<[method |-> method, details |-> op]>>]>>]

\* Inputs that vary the shape of spec.paths and the summary and description
\* of its operations.
ShapeInputs ==
  {[spec |-> Document(NoInfo, paths, NoComponents),
    options |-> DefaultOptions] :
     paths \in UNION {PathsChoices(Operation(su, de, NoParameters,
                                             NoRequestBody, NoResponses)) :
                        su \in {Undefined, Str(<<>>), Str(TextPlain)},
                        de \in {Undefined, Str(TextAmp)}}}

\* Inputs that vary what one operation and the info object carry, every
\* free text of the document being the same text t.
ContentInputs ==
  {[spec |-> Document(Info(x.t, x.contact),
                      SinglePath(x.path, MethodGet,
                        Operation(Str(x.t), Str(x.t),
                                  x.parameters, x.requestBody, x.responses)),
                      x.components),
    options |-> [DefaultOptions EXCEPT !.tryItOut = x.tryItOut,
                                       !.search = x.search]] :
     x \in UNION {[t : {t}, contact : {NoContact, Contact(t)},
                   path : {PathUsers, PathHot},
                   parameters : ParametersChoices(t),
                   requestBody : RequestBodyChoices,
                   responses : ResponsesChoices(t),
                   components : {NoComponents, Components(t)},
                   tryItOut : BOOLEAN, search : {TRUE}] :
                    t \in {TextPlain, TextHot}}}

ThemeNames ==
  {"light", "dark", "dracula", "github", "solarized", "", "constructor",
   "__proto__"}

\* Inputs that vary the theme, and the documents that are not a mapping
\* with paths: null, and a mapping with nothing in it.
ThemeInputs ==
  {[spec |-> d,
    options |-> [DefaultOptions EXCEPT !.theme = th, !.toc = toc,
                                       !.search = toc]] :
     d \in {NullDoc, Document(NoInfo, NoPaths, NoComponents),
            Document(NoInfo,
                     SinglePath(PathHot, MethodPost,
                       Operation(Undefined, Undefined, NoParameters,
                                 NoRequestBody, NoResponses)),
                     NoComponents)},
     th \in ThemeNames, toc \in BOOLEAN}

RenderInputs == ShapeInputs \cup ContentInputs \cup ThemeInputs

(***************************************************************************)
(* The command line.  An argument is kept whole (text) and as its code     *)
(* units (units); `defined` is FALSE for the undefined that args[i + 1]    *)
(* reads past the end of the array.                                        *)
(***************************************************************************)
Arg(text, units) == [defined |-> TRUE, text |-> text, units |-> units]

UndefinedArg == [defined |-> FALSE, text |-> "", units |-> <<>>]

\* arg.startsWith('-')
Dashed(arg) == StartsWith(arg.units, "-")

ArgUsersJson ==
  Arg("users.json", <<"u", "s", "e", "r", "s", ".", "j", "s", "o", "n">>)

ArgPetsYaml ==
  Arg("pets.yaml", <<"p", "e", "t", "s", ".", "y", "a", "m", "l">>)

ArgNullJson ==
  Arg("null.json", <<"n", "u", "l", "l", ".", "j", "s", "o", "n">>)

ArgBadJson == Arg("bad.json", <<"b", "a", "d", ".", "j", "s", "o", "n">>)

ArgMissingJson ==
  Arg("missing.json",
      <<"m", "i", "s", "s", "i", "n", "g", ".", "j", "s", "o", "n">>)

ArgHelp == Arg("--help", <<"-", "-", "h", "e", "l", "p">>)

ArgNoSearch ==
  Arg("--no-search",
      <<"-", "-", "n", "o", "-", "s", "e", "a", "r", "c", "h">>)

\* The arguments a command line of the model is made of.
ArgChoices ==
  {ArgUsersJson, ArgPetsYaml, ArgNullJson, ArgBadJson, ArgMissingJson,
   ArgHelp, ArgNoSearch}

\* part_000 18-28 and cli.js 22-29: the parsed arguments before any
\* argument is read.  `exit` is -1, or the code a flag exits with.
InitialArgs ==
  [exit |-> -1, inputs |-> <<>>, output |-> Arg("docs/", <<"d", "o", "c", "s", "/">>),
   theme |-> Arg("light", <<"l", "i", "g", "h", "t">>),
   logo |-> UndefinedArg, favicon |-> UndefinedArg, tryItOut |-> FALSE,
   search |-> TRUE, toc |-> TRUE, title |-> UndefinedArg]

\* args[i], undefined past the end.
ArgAt(a, i) == IF i <= Len(a) THEN a[i] ELSE UndefinedArg

RECURSIVE parseArgsFrom(_, _, _)
\* part_000 30-79: the loop of parseArgs from index i on.
parseArgsFrom(a, i, result) ==
  IF i > Len(a) THEN result
  ELSE
    LET arg == a[i].text
        nextArg == ArgAt(a, i + 1)
    IN  CASE arg \in {"-o", "--output"} ->
               parseArgsFrom(a, i + 2, [result EXCEPT !.output = nextArg])
          [] arg \in {"-t", "--theme"} ->
               parseArgsFrom(a, i + 2, [result EXCEPT !.theme = nextArg])
          [] arg = "--logo" ->
               parseArgsFrom(a, i + 2, [result EXCEPT !.logo = nextArg])
          [] arg = "--favicon" ->
               parseArgsFrom(a, i + 2, [result EXCEPT !.favicon = nextArg])
          [] arg = "--try-it-out" ->
               parseArgsFrom(a, i + 1, [result EXCEPT !.tryItOut = TRUE])
          [] arg = "--no-search" ->
               parseArgsFrom(a, i + 1, [result EXCEPT !.search = FALSE])
          [] arg = "--no-toc" ->
               parseArgsFrom(a, i + 1, [result EXCEPT !.toc = FALSE])
          [] arg = "--title" ->
               parseArgsFrom(a, i + 2, [result EXCEPT !.title = nextArg])
          [] arg \in {"-h", "--help", "-v", "--version"} ->
               [result EXCEPT !.exit = 0]
          [] OTHER ->
               parseArgsFrom(a, i + 1,
                 IF ~Dashed(a[i])
                 THEN [result EXCEPT !.inputs = Append(@, a[i])]
                 ELSE result)

\* part_000 17-82
parseArgs(a) == parseArgsFrom(a, 1, InitialArgs)

RECURSIVE commanderParseFrom(_, _, _)
\* cli.js 15-29 and 64: what program.parse() makes of the arguments for
\* the options cli.js declares.  The help and version flags exit with 0, an
\* option that is not declared or lacks its argument exits with 1.
commanderParseFrom(a, i, result) ==
  IF i > Len(a) THEN result
  ELSE
    LET arg == a[i].text
        nextArg == ArgAt(a, i + 1)
        valued(field) ==
          IF nextArg.defined
          THEN commanderParseFrom(a, i + 2, [result EXCEPT ![field] = nextArg])
          ELSE [result EXCEPT !.exit = 1]
    IN  CASE arg \in {"-o", "--output"} -> valued("output")
          [] arg \in {"-t", "--theme"} -> valued("theme")
          [] arg = "--logo" -> valued("logo")
          [] arg = "--favicon" -> valued("favicon")
          [] arg = "--title" -> valued("title")
          [] arg = "--try-it-out" ->
               commanderParseFrom(a, i + 1, [result EXCEPT !.tryItOut = TRUE])
          [] arg = "--no-search" ->
               commanderParseFrom(a, i + 1, [result EXCEPT !.search = FALSE])
          [] arg = "--no-toc" ->
               commanderParseFrom(a, i + 1, [result EXCEPT !.toc = FALSE])
          [] arg \in {"-h", "--help", "-V", "--version"} ->
               [result EXCEPT !.exit = 0]
          [] OTHER ->
               IF Dashed(a[i]) THEN [result EXCEPT !.exit = 1]
               ELSE commanderParseFrom(a, i + 1,
                      [result EXCEPT !.inputs = Append(@, a[i])])

commanderParse(a) == commanderParseFrom(a, 1, InitialArgs)

\* cli.js 42-52 and part_000 131-141 with generator.js 18-28: the options
\* generateDocs works with for the parsed arguments.
DocsOptions(parsed) ==
  [theme |-> IF parsed.theme.defined THEN parsed.theme.text ELSE "light",
   logo |-> parsed.logo.text,
   favicon |-> parsed.favicon.text,
   tryItOut |-> parsed.tryItOut,
   search |-> parsed.search,
   toc |-> parsed.toc,
   title |-> IF parsed.title.defined THEN Str(parsed.title.units)
             ELSE Undefined]

(***************************************************************************)
(* The input files, and parseSpec (generator.js 71-79).                    *)
(***************************************************************************)
\* spec.md section 8, the end-to-end scenario.
UsersDoc ==
  Document([NoInfo EXCEPT !.present = TRUE,
                          !.title = Str(<<"M", "y", " ", "A", "P", "I">>),
                          !.version = DefaultVersion],
           SinglePath(PathUsers, MethodGet,
             Operation(Str(TextPlain), Undefined, NoParameters, NoRequestBody,
               Responses(<<[code |-> Code200,
                            response |-> Response(
                              Str(<<"S", "u", "c", "c", "e", "s", "s">>),
                              NoSchema)]>>))),
           NoComponents)

PetsDoc ==
  Document(NoInfo,
           [kind |-> "object",
            entries |->
              <<[path |-> PathHot,
                 methods |->
                   <<[method |-> MethodPost,
                      details |-> Operation(Undefined, Str(TextAmp),
                                    NoParameters,
                                    [present |-> TRUE, jsonSchema |-> JsonSchema],
                                    NoResponses)],
                     [method |-> MethodGet,
                      details |-> Operation(Undefined, Undefined, NoParameters,
                                    NoRequestBody, NoResponses)]>>],
                [path |-> PathUsers,
                 methods |->
                   <<[method |-> MethodGet,
                      details |-> Operation(Str(TextPlain), Undefined,
                                    NoParameters, NoRequestBody,
                                    NoResponses)]>>]>>],
           NoComponents)

\* readFileSync(inputPath, 'utf8'): the content of a file of the model, or
\* ENOENT.  A content is JSON text, YAML text that is not JSON, or text
\* neither decoder takes, with the value it decodes to.
readFileSync(path) ==
  CASE path.text = "users.json" ->
         Returned([format |-> "json", doc |-> UsersDoc])
    [] path.text = "pets.yaml" ->
         Returned([format |-> "yaml", doc |-> PetsDoc])
    [] path.text = "null.json" ->
         Returned([format |-> "json", doc |-> NullDoc])
    [] path.text = "bad.json" ->
         Returned([format |-> "garbage", doc |-> NullDoc])
    [] OTHER -> Thrown("ENOENT")

RECURSIVE LastSegment(_)
\* inputPath.split('.').pop()
LastSegment(units) ==
  IF \A i \in 1..Len(units) : units[i] # "." THEN units
  ELSE LastSegment(Tail(units))

ExtYaml == <<"y", "a", "m", "l">>

ExtYml == <<"y", "m", "l">>

parseSpec(inputPath) ==
  LET content == readFileSync(inputPath)
      ext == LastSegment(inputPath.units)
  IN  IF ~content.ok THEN content
      ELSE IF ext = ExtYaml \/ ext = ExtYml
      THEN \* yaml.parse: YAML text, JSON text being YAML too
           IF content.value.format \in {"json", "yaml"}
           THEN Returned(content.value.doc) ELSE Thrown("YAMLParseError")
      ELSE \* JSON.parse
           IF content.value.format = "json"
           THEN Returned(content.value.doc) ELSE Thrown("SyntaxError")

\* JSON.stringify(value, null, 2) of a value all of whose properties are
\* strings or arrays of such objects: the text that parses back to `value`.
JSONStringify(value) == [json |-> value, indent |-> 2]

(***************************************************************************)
(* validateSpec, the structural check that is exported next to parseSpec.  *)
(* It reads four keys of the decoded document; a document that carries the *)
(* version keys is the document record extended with openapi and swagger,  *)
(* each a string or undefined.                                             *)
(***************************************************************************)
Versioned(d, openapi, swagger) ==
  [isNull |-> d.isNull, openapi |-> openapi, swagger |-> swagger,
   info |-> d.info, paths |-> d.paths, components |-> d.components]

MissingVersion == "Missing openapi or swagger version"

MissingInfo == "Missing info object"

MissingPaths == "Missing paths object"

\* A mutation of validateSpec: only the openapi key counts as a version.
validateSpecOpenapiOnly(d) ==
  IF d.isNull THEN Thrown("TypeError")
  ELSE LET errors ==
             (IF ~Truthy(d.openapi) THEN <<MissingVersion>> ELSE <<>>)
               \o (IF ~d.info.present THEN <<MissingInfo>> ELSE <<>>)
               \o (IF d.paths.kind # "object" THEN <<MissingPaths>>
                   ELSE <<>>)
       IN  Returned([valid |-> Len(errors) = 0, errors |-> errors])

\* validateSpec(spec): one push per failed test, in the order version, info,
\* paths; reading a key of null throws.  An empty mapping is truthy.
validateSpec(d) ==
  IF d.isNull THEN Thrown("TypeError")
  ELSE LET errors ==
             (IF ~Truthy(d.openapi) /\ ~Truthy(d.swagger)
              THEN <<MissingVersion>> ELSE <<>>)
               \o (IF ~d.info.present THEN <<MissingInfo>> ELSE <<>>)
               \o (IF d.paths.kind # "object" THEN <<MissingPaths>>
                   ELSE <<>>)
       IN  Returned([valid |-> Len(errors) = 0, errors |-> errors])

\* The documents validateSpec is applied to: every combination of the
\* version keys (missing, empty, set), info (missing, set) and paths
\* (missing, null, empty, set), and the null document.
VersionOpenapi == <<"3", ".", "0", ".", "0">>

VersionSwagger == <<"2", ".", "0">>

ValidateInputs ==
  {Versioned(NullDoc, Undefined, Undefined)}
    \cup
  {Versioned(Document(info, paths, NoComponents), openapi, swagger) :
     openapi \in {Undefined, Str(<<>>), Str(VersionOpenapi)},
     swagger \in {Undefined, Str(VersionSwagger)},
     info \in {NoInfo, Info(TextPlain, NoContact), UsersDoc.info},
     paths \in {NoPaths, [kind |-> "null", entries |-> <<>>],
                [kind |-> "object", entries |-> <<>>],
                UsersDoc.paths, PetsDoc.paths}}

(***************************************************************************)
(* The output directory.  A file is <<>> when it does not exist and        *)
(* <<content>> when it does; dir and assets are "absent", "dir" or "file". *)
(***************************************************************************)
StaleIndex == <<"<!DOCTYPE html><html>an earlier run</html>">>

StaleSearch ==
  JSONStringify([index |-> <<SearchEntry(<<"/", "o", "l", "d">>, MethodGet,
                   Operation(Undefined, Undefined, NoParameters,
                             NoRequestBody, NoResponses))>>])

\* What an earlier run with search enabled left.
StaleDirectory ==
  [dir |-> "dir", index |-> <<StaleIndex>>, search |-> <<StaleSearch>>,
   assets |-> "dir", style |-> <<getCSS("dark")>>, app |-> <<getJS>>]

\* The directory exists and `assets` in it is a regular file.
AssetsIsFile ==
  [dir |-> "dir", index |-> <<>>, search |-> <<>>, assets |-> "file",
   style |-> <<>>, app |-> <<>>]

\* The output path is a regular file.
OutputIsFile ==
  [dir |-> "file", index |-> <<>>, search |-> <<>>, assets |-> "absent",
   style |-> <<>>, app |-> <<>>]

(***************************************************************************)
(* State.                                                                  *)
(***************************************************************************)
VARIABLES
  entry,        \* which CLI runs: "cli.js" or "part_000"
  argv,         \* process.argv.slice(2)
  args,         \* the parsed arguments (inputs and options)
  pc,           \* the position of control
  k,            \* the index into args.inputs of the input in hand
  fs,           \* the output directory on disk
  fs0,          \* the output directory as the process found it
  written,      \* the files the generateDocs call in hand has written
  error,        \* the name of the error thrown, "" when none
  exitCode,     \* the exit code of the process, -1 while it runs
  log,          \* what the run has printed, in order
  spec,         \* generateDocs: the decoded document
  options,      \* generateDocs: its options
  html,         \* generateDocs: the result of generateHTML
  searchIndex,  \* generateDocs: the result of generateSearchIndex
  css,          \* the result of getCSS
  validation,   \* the result of validateSpec
  fsBefore      \* history: fs when generateDocs was last called

vars ==
  <<entry, argv, args, pc, k, fs, fs0, written, error, exitCode, log, spec,
    options, html, searchIndex, css, validation,
    fsBefore>>

cliVars ==
  <<entry, argv, args, k, fs, fs0, written, error, exitCode, log, validation,
    fsBefore>>

genVars == <<spec, options, html, searchIndex, css>>

Pending == [ok |-> FALSE, error |-> "pending", value |-> <<>>]

\* An output directory that does not exist.
NoDirectory ==
  [dir |-> "absent", index |-> <<>>, search |-> <<>>, assets |-> "absent",
   style |-> <<>>, app |-> <<>>]

(***************************************************************************)
(* SpecRender: generateHTML, generateSearchIndex and getCSS applied to     *)
(* inputs drawn from RenderInputs, in the order generateDocs calls them.   *)
(***************************************************************************)
InitRender ==
  /\ entry = "none" /\ argv = <<>> /\ args = InitialArgs /\ k = 0
  /\ fs = NoDirectory /\ fs0 = NoDirectory /\ written = {} /\ error = ""
  /\ exitCode = -1 /\ log = <<>>
  /\ \E x \in RenderInputs : spec = x.spec /\ options = x.options
  /\ pc = "apply generateHTML"
  /\ html = Pending /\ searchIndex = Pending /\ css = <<>>
  /\ validation = Pending
  /\ fsBefore = fs

ApplyGenerateHTML ==
  /\ pc = "apply generateHTML"
  /\ html' = generateHTML(spec, HtmlOptions(spec, options))
  /\ pc' = "apply generateSearchIndex"
  /\ UNCHANGED <<cliVars, spec, options, searchIndex, css>>

ApplyGenerateSearchIndex ==
  /\ pc = "apply generateSearchIndex"
  /\ searchIndex' = generateSearchIndex(spec)
  /\ pc' = "apply getCSS"
  /\ UNCHANGED <<cliVars, spec, options, html, css>>

ApplyGetCSS ==
  /\ pc = "apply getCSS"
  /\ css' = getCSS(options.theme)
  /\ pc' = "applied"
  /\ UNCHANGED <<cliVars, spec, options, html, searchIndex>>

NextRender == ApplyGenerateHTML \/ ApplyGenerateSearchIndex \/ ApplyGetCSS

SpecRender == InitRender /\ [][NextRender]_vars

(***************************************************************************)
(* SpecValidate: validateSpec applied to a document drawn from             *)
(* ValidateInputs.                                                         *)
(***************************************************************************)
InitValidate ==
  /\ entry = "none" /\ argv = <<>> /\ args = InitialArgs /\ k = 0
  /\ fs = NoDirectory /\ fs0 = NoDirectory /\ written = {} /\ error = ""
  /\ exitCode = -1 /\ log = <<>>
  /\ spec \in ValidateInputs /\ options = DefaultOptions
  /\ pc = "apply validateSpec"
  /\ html = Pending /\ searchIndex = Pending /\ css = <<>>
  /\ validation = Pending
  /\ fsBefore = fs

ApplyValidateSpec ==
  /\ pc = "apply validateSpec"
  /\ validation' = validateSpec(spec)
  /\ pc' = "validated"
  /\ UNCHANGED <<entry, argv, args, k, fs, fs0, written, error, exitCode, log,
                 fsBefore, genVars>>

NextValidate == ApplyValidateSpec

SpecValidate == InitValidate /\ [][NextValidate]_vars

(***************************************************************************)
(* Spec: one run of the CLI.  The process parses its arguments, runs        *)
(* generateDocs on each input in turn and exits; generateDocs is followed  *)
(* statement by statement, each file-system call being one step.           *)
(***************************************************************************)
Event(what, input) == [event |-> what, input |-> input]

\* The command lines of the model: up to MaxArgs arguments.
ArgvChoices == UNION {[1..n -> ArgChoices] : n \in 0..MaxArgs}

Init ==
  /\ entry \in {"cli.js", "part_000"}
  /\ argv \in ArgvChoices
  /\ args = InitialArgs /\ k = 0
  /\ fs0 \in {NoDirectory, StaleDirectory, AssetsIsFile, OutputIsFile}
  /\ fs = fs0
  /\ written = {} /\ error = "" /\ exitCode = -1 /\ log = <<>>
  /\ pc = "main"
  /\ spec = NullDoc /\ options = DefaultOptions
  /\ html = Pending /\ searchIndex = Pending /\ css = <<>>
  /\ validation = Pending
  /\ fsBefore = fs

\* part_000 117 (parseArgs, which exits on a help or version flag) and
\* cli.js 64 (program.parse()).
ParseArguments ==
  /\ pc = "main"
  /\ LET parsed == IF entry = "part_000" THEN parseArgs(argv)
                   ELSE commanderParse(argv)
     IN  IF parsed.exit # -1
         THEN /\ exitCode' = parsed.exit
              /\ pc' = "exited"
              /\ args' = args
         ELSE /\ args' = parsed
              /\ pc' = "action"
              /\ exitCode' = exitCode
  /\ UNCHANGED <<fsBefore, validation, entry, argv, k, fs, fs0, written, error, log, genVars>>

\* cli.js 31-35, part_000 119-124: no input file.
NoInput ==
  /\ pc = "action"
  /\ Len(args.inputs) = 0
  /\ log' = Append(log, Event("Error: Please provide at least one input file", 0))
  /\ exitCode' = 1
  /\ pc' = "exited"
  /\ UNCHANGED <<fsBefore, validation, entry, argv, args, k, fs, fs0, written, error, genVars>>

\* cli.js 37-40, part_000 126-129: into the try block and the loop.
EnterLoop ==
  /\ pc = "action"
  /\ Len(args.inputs) > 0
  /\ log' = Append(log, Event("DocuAPI v1.0.0", 0))
  /\ k' = 1
  /\ pc' = "for"
  /\ UNCHANGED <<fsBefore, validation, entry, argv, args, fs, fs0, written, error, exitCode,
                 genVars>>

\* cli.js 40-52, part_000 129-141, generator.js 17-28: the next input is
\* announced and generateDocs is called; resolve(output) throws when the
\* output option is undefined.
CallGenerateDocs ==
  /\ pc = "for"
  /\ k <= Len(args.inputs)
  /\ log' = Append(log, Event("Processing", k))
  /\ IF args.output.defined
     THEN /\ options' = DocsOptions(args)
          /\ pc' = "parseSpec"
          /\ error' = error
     ELSE /\ options' = options
          /\ pc' = "catch"
          /\ error' = "TypeError"
  /\ written' = {}
  /\ fsBefore' = fs
  /\ html' = Pending /\ searchIndex' = Pending
  /\ UNCHANGED <<validation, entry, argv, args, k, fs, fs0, exitCode, spec, css>>

\* generator.js 31
ParseSpec ==
  /\ pc = "parseSpec"
  /\ LET r == parseSpec(args.inputs[k])
     IN  IF r.ok
         THEN spec' = r.value /\ pc' = "generateHTML" /\ error' = error
         ELSE spec' = spec /\ pc' = "catch" /\ error' = r.error
  /\ UNCHANGED <<fsBefore, validation, entry, argv, args, k, fs, fs0, written, exitCode, log,
                 options, html, searchIndex, css>>

\* A mutation of GenerateHTML: the output directory is created before the
\* page is rendered.
GenerateHTMLAfterMkdir ==
  /\ pc = "generateHTML"
  /\ fs' = IF fs.dir = "absent" THEN [fs EXCEPT !.dir = "dir"] ELSE fs
  /\ html' = generateHTML(spec, HtmlOptions(spec, options))
  /\ IF html'.ok THEN pc' = "mkdir output" /\ error' = error
     ELSE pc' = "catch" /\ error' = html'.error
  /\ UNCHANGED <<fsBefore, validation, entry, argv, args, k, fs0, written,
                 exitCode, log, spec, options, searchIndex, css>>

\* generator.js 34-42
GenerateHTML ==
  /\ pc = "generateHTML"
  /\ html' = generateHTML(spec, HtmlOptions(spec, options))
  /\ IF html'.ok THEN pc' = "mkdir output" /\ error' = error
     ELSE pc' = "catch" /\ error' = html'.error
  /\ UNCHANGED <<fsBefore, validation, entry, argv, args, k, fs, fs0, written, exitCode, log, spec,
                 options, searchIndex, css>>

\* generator.js 45-48
MkdirOutput ==
  /\ pc = "mkdir output"
  /\ fs' = IF fs.dir = "absent" THEN [fs EXCEPT !.dir = "dir"] ELSE fs
  /\ pc' = "write index.html"
  /\ UNCHANGED <<fsBefore, validation, entry, argv, args, k, fs0, written, error, exitCode, log,
                 genVars>>

\* A mutation of WriteIndex: an index.html that exists is left as it is.
WriteIndexKeepsExisting ==
  /\ pc = "write index.html"
  /\ IF fs.dir = "dir"
     THEN /\ fs' = IF fs.index = <<>> THEN [fs EXCEPT !.index = <<html.value>>]
                   ELSE fs
          /\ written' = written \cup {"index.html"}
          /\ pc' = "write search.json"
          /\ error' = error
     ELSE /\ fs' = fs /\ written' = written
          /\ pc' = "catch"
          /\ error' = "ENOTDIR"
  /\ UNCHANGED <<fsBefore, validation, entry, argv, args, k, fs0, exitCode, log, genVars>>

\* generator.js 51: writeFileSync throws ENOTDIR when the output path is
\* not a directory.
WriteIndex ==
  /\ pc = "write index.html"
  /\ IF fs.dir = "dir"
     THEN /\ fs' = [fs EXCEPT !.index = <<html.value>>]
          /\ written' = written \cup {"index.html"}
          /\ pc' = "write search.json"
          /\ error' = error
     ELSE /\ fs' = fs /\ written' = written
          /\ pc' = "catch"
          /\ error' = "ENOTDIR"
  /\ UNCHANGED <<fsBefore, validation, entry, argv, args, k, fs0, exitCode, log, genVars>>

\* A mutation of WriteSearch: the search option is not looked at.
WriteSearchAlways ==
  /\ pc = "write search.json"
  /\ searchIndex' = generateSearchIndex(spec)
  /\ fs' = [fs EXCEPT !.search = <<JSONStringify(searchIndex'.value)>>]
  /\ written' = written \cup {"search.json"}
  /\ pc' = "mkdir assets"
  /\ UNCHANGED <<fsBefore, validation, entry, argv, args, k, fs0, error, exitCode, log, spec,
                 options, html, css>>

\* generator.js 54-57
WriteSearch ==
  /\ pc = "write search.json"
  /\ IF options.search
     THEN /\ searchIndex' = generateSearchIndex(spec)
          /\ fs' = [fs EXCEPT !.search = <<JSONStringify(searchIndex'.value)>>]
          /\ written' = written \cup {"search.json"}
     ELSE /\ searchIndex' = searchIndex /\ fs' = fs /\ written' = written
  /\ pc' = "mkdir assets"
  /\ UNCHANGED <<fsBefore, validation, entry, argv, args, k, fs0, error, exitCode, log, spec,
                 options, html, css>>

\* generator.js 60-63
MkdirAssets ==
  /\ pc = "mkdir assets"
  /\ fs' = IF fs.assets = "absent" THEN [fs EXCEPT !.assets = "dir"] ELSE fs
  /\ pc' = "write style.css"
  /\ UNCHANGED <<fsBefore, validation, entry, argv, args, k, fs0, written, error, exitCode, log,
                 genVars>>

\* generator.js 65: writeFileSync throws ENOTDIR when `assets` is a file.
WriteStyle ==
  /\ pc = "write style.css"
  /\ IF fs.assets = "dir"
     THEN /\ fs' = [fs EXCEPT !.style = <<getCSS(options.theme)>>]
          /\ written' = written \cup {"assets/style.css"}
          /\ pc' = "write app.js"
          /\ error' = error
     ELSE /\ fs' = fs /\ written' = written
          /\ pc' = "catch"
          /\ error' = "ENOTDIR"
  /\ UNCHANGED <<fsBefore, validation, entry, argv, args, k, fs0, exitCode, log, genVars>>

\* generator.js 66-68 with cli.js 53-54, part_000 142-143: the last file is
\* written, generateDocs returns, the input is reported and the loop goes
\* on to the next one.
WriteAppAndReturn ==
  /\ pc = "write app.js"
  /\ fs' = [fs EXCEPT !.app = <<getJS>>]
  /\ written' = written \cup {"assets/app.js"}
  /\ log' = Append(log, Event("Generated", k))
  /\ k' = k + 1
  /\ pc' = "for"
  /\ UNCHANGED <<fsBefore, validation, entry, argv, args, fs0, error, exitCode, genVars>>

\* cli.js 56-57 and 62, part_000 145-150 and 158: the loop is over, the
\* action returns and the process ends with code 0.
Finish ==
  /\ pc = "for"
  /\ k > Len(args.inputs)
  /\ log' = Append(log, Event("Documentation generated", 0))
  /\ exitCode' = 0
  /\ pc' = "exited"
  /\ UNCHANGED <<fsBefore, validation, entry, argv, args, k, fs, fs0, written, error, genVars>>

\* A mutation of Catch: the error is reported and the loop goes on with the
\* next input.
CatchAndContinue ==
  /\ pc = "catch"
  /\ log' = Append(log, Event("Error", k))
  /\ k' = k + 1
  /\ pc' = "for"
  /\ UNCHANGED <<fsBefore, validation, entry, argv, args, fs, fs0, written, error, exitCode,
                 genVars>>

\* A mutation of Catch: the error is reported and process.exit(1) is not
\* called, so the process ends with code 0.
CatchWithoutExit ==
  /\ pc = "catch"
  /\ log' = Append(log, Event("Error", k))
  /\ exitCode' = 0
  /\ pc' = "exited"
  /\ UNCHANGED <<fsBefore, validation, entry, argv, args, k, fs, fs0, written, error, genVars>>

\* cli.js 58-61, part_000 151-157: the catch block.
Catch ==
  /\ pc = "catch"
  /\ log' = Append(log, Event("Error", k))
            \o (IF entry = "part_000" /\ error = "ENOENT"
                THEN <<Event("Hint: Make sure the input file exists.", k)>>
                ELSE <<>>)
  /\ exitCode' = 1
  /\ pc' = "exited"
  /\ UNCHANGED <<fsBefore, validation, entry, argv, args, k, fs, fs0, written, error, genVars>>

Next ==
  \/ ParseArguments
  \/ NoInput
  \/ EnterLoop
  \/ CallGenerateDocs
  \/ ParseSpec
  \/ GenerateHTML
  \/ MkdirOutput
  \/ WriteIndex
  \/ WriteSearch
  \/ MkdirAssets
  \/ WriteStyle
  \/ WriteAppAndReturn
  \/ Finish
  \/ Catch

Spec == Init /\ [][Next]_vars

(***************************************************************************)
(* Reading a document and a generated page, for the properties below.      *)
(***************************************************************************)
\* The operations of a document, each with its path and method.
OperationsOf(d) ==
  IF d.paths.kind # "object" THEN {}
  ELSE UNION {{[path |-> d.paths.entries[i].path,
                method |-> d.paths.entries[i].methods[j].method,
                details |-> d.paths.entries[i].methods[j].details] :
                 j \in 1..Len(d.paths.entries[i].methods)} :
                i \in 1..Len(d.paths.entries)}

\* The free texts a document carries.
FreeTexts(d) ==
  {o.path : o \in OperationsOf(d)}
    \cup {v.s : v \in {d.info.title, d.info.description,
                       d.info.contact.email, d.info.contact.url}}
    \cup UNION {{o.details.summary.s, o.details.description.s} :
                  o \in OperationsOf(d)}
    \cup UNION {UNION {{o.details.parameters.items[i].name.s,
                        o.details.parameters.items[i].in.s,
                        o.details.parameters.items[i].schemaType.s,
                        o.details.parameters.items[i].description.s} :
                         i \in 1..Len(o.details.parameters.items)} :
                  o \in OperationsOf(d)}
    \cup UNION {{o.details.responses.entries[i].response.description.s :
                   i \in 1..Len(o.details.responses.entries)} :
                  o \in OperationsOf(d)}
    \cup {d.components.schemas[i].name : i \in 1..Len(d.components.schemas)}

SpecialUnits == {"<", ">", "&", "\"", "'"}

HasSpecial(t) == \E i \in 1..Len(t) : t[i] \in SpecialUnits

Entities == {EntAmp, EntLt, EntGt, EntQuot, EntApos}

\* A character reference that escapeHtml can write starts at position p.
EntityAt(s, p) ==
  \E e \in Entities :
    p + Len(e) - 1 <= Len(s) /\ SubSeq(s, p, p + Len(e) - 1) = e

\* t occurs raw in s: as a contiguous run none of whose "&" starts a
\* character reference.
RawOccurs(t, s) ==
  \E i \in 0..(Len(s) - Len(t)) :
    \A j \in 1..Len(t) :
      s[i + j] = t[j] /\ (t[j] = "&" => ~EntityAt(s, i + j))

\* C1: every free text of the document that holds one of < > & " ' is in
\* the page generateHTML returns only in its escaped form, never raw.
C1_FreeTextOnlyEscaped ==
  html.ok =>
    \A t \in FreeTexts(spec) : HasSpecial(t) => ~RawOccurs(t, html.value)

\* The (path, method) pairs of spec.paths.
PairsOf(d) == {<<o.path, o.method>> : o \in OperationsOf(d)}

\* C2: the (path, method) pairs of the entries generateSearchIndex returns
\* are exactly the pairs of spec.paths, each of them once.
C2_IndexPairsExact ==
  searchIndex.ok =>
    LET idx == searchIndex.value.index
    IN  /\ \A i \in 1..Len(idx) : <<idx[i].path, idx[i].method>> \in PairsOf(spec)
        /\ \A pr \in PairsOf(spec) :
             Cardinality({i \in 1..Len(idx) :
                            <<idx[i].path, idx[i].method>> = pr}) = 1

\* An index of at least three entries over two paths has been returned.
C2_Witness ==
  /\ searchIndex.ok
  /\ Len(searchIndex.value.index) >= 3
  /\ Cardinality({searchIndex.value.index[i].path :
                    i \in 1..Len(searchIndex.value.index)}) >= 2

\* C3: the entry of a (path, method) pair has title = summary if not empty,
\* else description if not empty, else the path; description = description
\* if not empty, else ''; slug = slugify(path), '-', method, which for
\* '/users' and get is '-users-get'.
C3_EntryFields ==
  searchIndex.ok =>
    \A o \in OperationsOf(spec) :
      \E i \in 1..Len(searchIndex.value.index) :
        LET e == searchIndex.value.index[i]
            su == o.details.summary
            de == o.details.description
        IN  /\ e.path = o.path /\ e.method = o.method
            /\ e.title = (IF su.t = "string" /\ Len(su.s) > 0 THEN su.s
                          ELSE IF de.t = "string" /\ Len(de.s) > 0 THEN de.s
                          ELSE o.path)
            /\ e.description = (IF de.t = "string" /\ Len(de.s) > 0
                                THEN de.s ELSE <<>>)
            /\ e.slug = slugify(o.path) \o <<"-">> \o o.method
            /\ (o.path = PathUsers /\ o.method = MethodGet) =>
                 e.slug = <<"-", "u", "s", "e", "r", "s", "-", "g", "e", "t">>

\* An index has been returned for a document with an operation whose
\* summary is '' and whose description is not, and so is its title.
C3_Witness ==
  /\ searchIndex.ok
  /\ \E o \in OperationsOf(spec) :
       /\ o.details.summary = Str(<<>>)
       /\ o.details.description = Str(TextAmp)
       /\ \E i \in 1..Len(searchIndex.value.index) :
            /\ searchIndex.value.index[i].path = o.path
            /\ searchIndex.value.index[i].title = TextAmp

\* C8: for a theme name that is none of light, dark, dracula, github,
\* getCSS returns the stylesheet of the light colour table.
C8_UnknownThemeIsLight ==
  (pc = "applied" /\ options.theme \notin {"light", "dark", "dracula", "github"})
    => css = getCSS("light")

\* The documents C9 is about: decodable, spec.paths empty or missing.
NoPathsIn(d) == d.isNull \/ d.paths.kind # "object" \/ d.paths.entries = <<>>

EndpointGroupOpen == "<div id=\""

\* C9: for a decodable document whose paths are empty or missing,
\* generateHTML returns a page with no endpoint block and
\* generateSearchIndex returns an empty index.
C9_NoPathsDegrades ==
  (pc = "applied" /\ NoPathsIn(spec)) =>
    /\ html.ok
    /\ Count(EndpointGroupOpen, html.value) = 0
    /\ searchIndex.ok
    /\ searchIndex.value.index = <<>>

ResponseOpen == "<div class=\"response response-"

\* The responses of a document, each with the code it is filed under.
ResponsesOf(d) ==
  UNION {{o.details.responses.entries[i].code :
            i \in 1..Len(o.details.responses.entries)} :
           o \in OperationsOf(d)}

\* C10: the block of a response has class success when its code starts
\* with 2, client when it starts with 4, server otherwise.
C10_ResponseClasses ==
  html.ok =>
    /\ \A code \in ResponsesOf(spec) :
         Occurs(<<ResponseOpen,
                  IF code[1] = "2" THEN "success"
                  ELSE IF code[1] = "4" THEN "client" ELSE "server",
                  "\"><h4>">> \o code \o <<" ">>, html.value)
    /\ \A i \in 1..Len(html.value) :
         html.value[i] = ResponseOpen =>
           \E code \in ResponsesOf(spec) :
             /\ SubSeq(html.value, i + 3, i + 2 + Len(code)) = code
             /\ html.value[i + 1] =
                  (IF code[1] = "2" THEN "success"
                   ELSE IF code[1] = "4" THEN "client" ELSE "server")

\* A page with the blocks of 200, 301, 404 and 500 in the classes success,
\* server, client and server.
C10_Witness ==
  /\ html.ok
  /\ Occurs(<<ResponseOpen, "success", "\"><h4>">> \o Code200, html.value)
  /\ Occurs(<<ResponseOpen, "server", "\"><h4>">> \o Code301, html.value)
  /\ Occurs(<<ResponseOpen, "client", "\"><h4>">> \o Code404, html.value)
  /\ Occurs(<<ResponseOpen, "server", "\"><h4>">> \o Code500, html.value)

(***************************************************************************)
(* Reading a run of the CLI, for the properties below.                     *)
(***************************************************************************)
\* The run has printed the event `e`.
Logged(e) == \E i \in 1..Len(log) : log[i] = e

\* The arguments of the command line that are not options.
Positional == SelectSeq(argv, LAMBDA a : ~Dashed(a))

\* The flags that print the help or the version and exit: those of
\* parseArgs (part_000 66-73), and those commander gives cli.js.
HelpOrVersionFlags ==
  IF entry = "part_000" THEN {"-h", "--help", "-v", "--version"}
  ELSE {"-h", "--help", "-V", "--version"}

HelpOrVersionAsked == \E i \in 1..Len(argv) : argv[i].text \in HelpOrVersionFlags

\* The index of the last input generateDocs has completed, 0 when none.
LastGenerated ==
  IF \E j \in 1..Len(args.inputs) : Logged(Event("Generated", j))
  THEN CHOOSE j \in 1..Len(args.inputs) :
         /\ Logged(Event("Generated", j))
         /\ \A l \in 1..Len(args.inputs) : Logged(Event("Generated", l)) => l <= j
  ELSE 0

\* C4: an input is taken up only when the one before it has been
\* generated, and once an input has thrown no input is taken up any more.
C4_SequentialAndAborting ==
  /\ \A i \in 1..Len(log) :
       log[i].event = "Processing" =>
         IF log[i].input = 1
         THEN \A j \in 1..(i - 1) : log[j].event \notin {"Processing", "Generated"}
         ELSE i > 1 /\ log[i - 1] = Event("Generated", log[i].input - 1)
  /\ \A i \in 1..Len(log) :
       log[i].event = "Generated" =>
         i > 1 /\ log[i - 1] = Event("Processing", log[i].input)
  /\ \A i \in 1..Len(log) :
       log[i].event = "Error" =>
         \A j \in (i + 1)..Len(log) :
           log[j].event \notin {"Processing", "Generated"}
  /\ (\E i \in 1..Len(log) : log[i].event = "Error") =>
       pc \in {"exited"}

\* A run of three inputs has ended: the first was generated, the second
\* threw, the third was never taken up.
C4_Witness ==
  /\ pc = "exited"
  /\ Len(args.inputs) = 3
  /\ Logged(Event("Generated", 1))
  /\ Logged(Event("Processing", 2))
  /\ Logged(Event("Error", 2))
  /\ ~Logged(Event("Processing", 3))

\* C5 as the claim states it: the exit code is 0 exactly when an input was
\* given and every input was generated, and 1 when no input was given or
\* an input threw.
C5_ExitCodeAsClaimed ==
  pc = "exited" =>
    /\ exitCode = 0 <=>
         /\ Len(Positional) >= 1
         /\ \A j \in 1..Len(Positional) : Logged(Event("Generated", j))
    /\ (Len(Positional) = 0 \/ \E i \in 1..Len(log) : log[i].event = "Error")
         => exitCode = 1

\* C5, amended: a run that is asked for the help or the version exits with
\* 0 and takes up no input; any other run exits with 0 exactly when an
\* input was given and every input was generated, and with 1 when no input
\* was given or an input threw.
C5_ExitCode ==
  pc = "exited" =>
    IF HelpOrVersionAsked
    THEN exitCode = 0 /\ log = <<>>
    ELSE /\ exitCode \in {0, 1}
         /\ exitCode = 0 <=>
              /\ Len(Positional) >= 1
              /\ \A j \in 1..Len(Positional) : Logged(Event("Generated", j))
         /\ (Len(Positional) = 0 \/ \E i \in 1..Len(log) : log[i].event = "Error")
              => exitCode = 1

\* A run that was given an input and asked for the help has exited with 0
\* and has taken up nothing.
C5_Witness ==
  /\ pc = "exited"
  /\ exitCode = 0
  /\ Len(Positional) >= 1
  /\ HelpOrVersionAsked
  /\ log = <<>>

\* C6: after a run in which an input was generated, the four files hold
\* what was generated from the last input that was generated; search.json,
\* which is generated only with the search option, is otherwise as the run
\* found it.
C6_LastWriteWins ==
  (pc = "exited" /\ LastGenerated > 0) =>
    LET d == parseSpec(args.inputs[LastGenerated]).value
        o == DocsOptions(args)
    IN  /\ fs.index = <<generateHTML(d, HtmlOptions(d, o)).value>>
        /\ fs.search = (IF o.search
                        THEN <<JSONStringify(generateSearchIndex(d).value)>>
                        ELSE fs0.search)
        /\ fs.style = <<getCSS(o.theme)>>
        /\ fs.app = <<getJS>>

\* A run has been aborted by its third input after generating two
\* different documents into a directory that held an earlier run's files.
C6_Witness ==
  /\ pc = "exited"
  /\ exitCode = 1
  /\ fs0 = StaleDirectory
  /\ LastGenerated = 2
  /\ Len(args.inputs) = 3
  /\ args.inputs[1] = ArgUsersJson
  /\ args.inputs[2] = ArgPetsYaml
  /\ fs.index = <<generateHTML(PetsDoc, HtmlOptions(PetsDoc, DefaultOptions)).value>>

\* generateDocs has just returned.
JustGenerated ==
  pc = "for" /\ log # <<>> /\ log[Len(log)].event = "Generated"

\* C7: a generateDocs call that returns has written index.html,
\* assets/style.css and assets/app.js, and has written search.json exactly
\* when the search option is true; search.json then is {index: [...]} with
\* one entry for each (path, method) pair.
C7_FilesWritten ==
  JustGenerated =>
    /\ {"index.html", "assets/style.css", "assets/app.js"} \subseteq written
    /\ fs.index = <<html.value>> /\ fs.style # <<>> /\ fs.app # <<>>
    /\ "search.json" \in written <=> options.search
    /\ "search.json" \in written =>
         /\ Len(fs.search) = 1
         /\ DOMAIN fs.search[1].json = {"index"}
         /\ LET idx == fs.search[1].json.index
            IN  /\ Len(idx) = Cardinality(PairsOf(spec))
                /\ {<<idx[i].path, idx[i].method>> : i \in 1..Len(idx)}
                     = PairsOf(spec)
                /\ \A i \in 1..Len(idx) :
                     DOMAIN idx[i] =
                       {"path", "method", "title", "description", "slug"}

\* generateDocs has returned with the search option off, in a directory
\* that holds an earlier search.json: the file is as it was.
C7_Witness ==
  /\ JustGenerated
  /\ ~options.search
  /\ "search.json" \notin written
  /\ fs.search = <<StaleSearch>>
  /\ Cardinality(PairsOf(spec)) = 3

(***************************************************************************)
(* validateSpec.                                                           *)
(***************************************************************************)
Requirements == {"version", "info", "paths"}

\* What a document leaves out: a version when neither openapi nor swagger
\* holds a non-empty string, info and paths when the key holds no mapping.
Misses(d, req) ==
  CASE req = "version" ->
         \A key \in {d.openapi, d.swagger} : key.t # "string" \/ Len(key.s) = 0
    [] req = "info" -> d.info = NoInfo
    [] req = "paths" -> d.paths.kind \in {"undefined", "null"}

ErrorFor(req) ==
  CASE req = "version" -> MissingVersion
    [] req = "info" -> MissingInfo
    [] req = "paths" -> MissingPaths

Missed(d) == {req \in Requirements : Misses(d, req)}

\* C11: for a spec object, validateSpec returns exactly one error string for
\* each requirement the spec misses (version key, info, paths) and none for
\* the others, and valid is true exactly when the error list is empty; a
\* spec that misses all three gets three errors and valid = false, and a spec
\* with only paths gets two errors.
C11_ValidateSpec ==
  (pc = "validated" /\ ~spec.isNull) =>
    /\ validation.ok
    /\ LET r == validation.value
       IN  /\ Len(r.errors) = Cardinality(Missed(spec))
           /\ \A req \in Requirements :
                Cardinality({i \in 1..Len(r.errors) :
                               r.errors[i] = ErrorFor(req)})
                  = IF Misses(spec, req) THEN 1 ELSE 0
           /\ r.valid <=> (r.errors = <<>>)
           /\ Missed(spec) = Requirements
                => Len(r.errors) = 3 /\ ~r.valid
           /\ Missed(spec) = {"version", "info"} => Len(r.errors) = 2

\* validateSpec has answered for a spec that holds only paths: two errors,
\* not valid.
C11_Witness ==
  /\ pc = "validated"
  /\ ~spec.isNull
  /\ spec.paths = PetsDoc.paths
  /\ Missed(spec) = {"version", "info"}
  /\ validation.ok
  /\ validation.value.errors = <<MissingVersion, MissingInfo>>
  /\ ~validation.value.valid

(***************************************************************************)
(* The request-body block.                                                 *)
(***************************************************************************)
RequestBodyOpen == "<h3>Request Body</h3><pre><code class=\"language-json\">"

\* The operations whose requestBody holds content['application/json'].schema.
WithJsonBodySchema(d) ==
  {o \in OperationsOf(d) :
     o.details.requestBody.present /\ o.details.requestBody.jsonSchema.present}

\* C12: the page holds one Request Body block for each operation whose
\* requestBody carries a schema under the JSON media type, and none for any
\* other operation.
C12_RequestBodyOnlyWithSchema ==
  html.ok =>
    Count(RequestBodyOpen, html.value) = Cardinality(WithJsonBodySchema(spec))

(***************************************************************************)
(* Anchor ids.  The id attribute of a group or of an endpoint block is     *)
(* what stands between the opening token and the token that closes the     *)
(* attribute.                                                              *)
(***************************************************************************)
GroupClose == "\" class=\"endpoint-group\"><h2>"

BlockClose == "\" class=\"endpoint method-"

\* The positions of h that hold the token `close`, in increasing order.
ClosePositions(h, close) ==
  LET Q == {q \in 1..Len(h) : h[q] = close}
  IN  CHOOSE f \in [1..Cardinality(Q) -> Q] :
        \A a, b \in 1..Cardinality(Q) : a < b => f[a] < f[b]

\* The ids of the elements of h whose id attribute ends with `close`, in
\* the order of the page.
AnchorIds(h, close) ==
  LET qs == ClosePositions(h, close)
  IN  [n \in 1..Len(qs) |->
        LET p == CHOOSE p \in 1..(qs[n] - 1) :
                   /\ h[p] = EndpointGroupOpen
                   /\ \A r \in (p + 1)..(qs[n] - 1) : h[r] # EndpointGroupOpen
        IN  SubSeq(h, p + 1, qs[n] - 1)]

Range(f) == {f[x] : x \in DOMAIN f}

\* id is `low` with every unit outside [a-z0-9] replaced by "-".
Dashed09(id, low) ==
  /\ Len(id) = Len(low)
  /\ \A i \in 1..Len(low) :
       id[i] = IF low[i] \in AlnumLower THEN low[i] ELSE "-"

\* C13 as stated: the anchor id of every path is the lowercased path with
\* the characters outside [a-z0-9] replaced by "-", has the length of the
\* path and holds only [a-z0-9-]; the id of every endpoint block is that id,
\* "-" and the method; /users with get gives -users-get.
C13_AnchorIdsAsClaimed ==
  html.ok =>
    LET paths == {PathEntries(spec)[i].path : i \in 1..Len(PathEntries(spec))}
        groupIds == Range(AnchorIds(html.value, GroupClose))
        blockIds == Range(AnchorIds(html.value, BlockClose))
    IN  /\ \A path \in paths :
             \E id \in groupIds :
               /\ Dashed09(id, toLowerCase(path))
               /\ Len(id) = Len(path)
               /\ \A i \in 1..Len(id) : id[i] \in AlnumLower \cup {"-"}
               /\ \A o \in OperationsOf(spec) :
                    o.path = path => id \o <<"-">> \o o.method \in blockIds
        /\ Cardinality(groupIds) <= Cardinality(paths)
        /\ Cardinality(blockIds) <= Cardinality(OperationsOf(spec))
        /\ [path |-> PathUsers, method |-> MethodGet]
             \in {[path |-> o.path, method |-> o.method] :
                    o \in OperationsOf(spec)}
             => <<"-", "u", "s", "e", "r", "s", "-", "g", "e", "t">>
                  \in blockIds

\* C13, amended: the anchor id of every path is the lowercased path with the
\* characters outside [a-z0-9] replaced by "-"; it holds only [a-z0-9-] and
\* has the length of the lowercased path, which is the length of the path
\* when lowercasing keeps the number of code units.  The id of every
\* endpoint block is that id, "-" and the method; /users with get gives
\* -users-get.
C13_AnchorIds ==
  html.ok =>
    LET paths == {PathEntries(spec)[i].path : i \in 1..Len(PathEntries(spec))}
        groupIds == Range(AnchorIds(html.value, GroupClose))
        blockIds == Range(AnchorIds(html.value, BlockClose))
    IN  /\ \A path \in paths :
             \E id \in groupIds :
               /\ Dashed09(id, toLowerCase(path))
               /\ Len(toLowerCase(path)) = Len(path) => Len(id) = Len(path)
               /\ \A i \in 1..Len(id) : id[i] \in AlnumLower \cup {"-"}
               /\ \A o \in OperationsOf(spec) :
                    o.path = path => id \o <<"-">> \o o.method \in blockIds
        /\ Cardinality(groupIds) <= Cardinality(paths)
        /\ Cardinality(blockIds) <= Cardinality(OperationsOf(spec))
        /\ [path |-> PathUsers, method |-> MethodGet]
             \in {[path |-> o.path, method |-> o.method] :
                    o \in OperationsOf(spec)}
             => <<"-", "u", "s", "e", "r", "s", "-", "g", "e", "t">>
                  \in blockIds

\* A page of a spec with the paths /users and /A'< (an upper-case letter and
\* two characters outside [a-z0-9]), each with get: the ids -users, -a--,
\* -users-get and -a---get are in it.
C13_Witness ==
  /\ html.ok
  /\ \E i, j \in 1..Len(PathEntries(spec)) :
       /\ PathEntries(spec)[i].path = PathUsers
       /\ PathEntries(spec)[j].path = PathHot
  /\ <<"-", "u", "s", "e", "r", "s">>
       \in Range(AnchorIds(html.value, GroupClose))
  /\ <<"-", "a", "-", "-">> \in Range(AnchorIds(html.value, GroupClose))
  /\ <<"-", "u", "s", "e", "r", "s", "-", "g", "e", "t">>
       \in Range(AnchorIds(html.value, BlockClose))
  /\ <<"-", "a", "-", "-", "-", "g", "e", "t">>
       \in Range(AnchorIds(html.value, BlockClose))

(***************************************************************************)
(* The order of the endpoint blocks and of the index entries.              *)
(***************************************************************************)
\* The (path, method) keys of a document as positions: <<i, j>> is the j-th
\* method of the i-th path.
KeysOf(d) ==
  UNION {{<<i, j>> : j \in 1..Len(PathEntries(d)[i].methods)} :
           i \in 1..Len(PathEntries(d))}

PathAt(d, a) == PathEntries(d)[a[1]].path

MethodAt(d, a) == PathEntries(d)[a[1]].methods[a[2]].method

\* Key order: paths in their order, and the methods of a path in theirs.
Before(a, b) == a[1] < b[1] \/ (a[1] = b[1] /\ a[2] < b[2])

\* C14: the endpoint blocks of the page and the entries of the search index
\* are in the same order, the key order of the spec: paths in their spec
\* order and, within a path, methods in their spec order, unsorted.
C14_SpecOrder ==
  LET ids == AnchorIds(html.value, BlockClose)
      idx == searchIndex.value.index
      IdAt(a) == slugify(PathAt(spec, a)) \o <<"-">> \o MethodAt(spec, a)
  IN  /\ html.ok =>
           /\ Len(ids) = Cardinality(KeysOf(spec))
           /\ \A a \in KeysOf(spec) : \E n \in 1..Len(ids) : ids[n] = IdAt(a)
           /\ \A a, b \in KeysOf(spec) :
                Before(a, b) =>
                  \E m, n \in 1..Len(ids) :
                    m < n /\ ids[m] = IdAt(a) /\ ids[n] = IdAt(b)
      /\ searchIndex.ok =>
           /\ Len(idx) = Cardinality(KeysOf(spec))
           /\ \A a \in KeysOf(spec) :
                \E n \in 1..Len(idx) :
                  idx[n].path = PathAt(spec, a)
                    /\ idx[n].method = MethodAt(spec, a)
           /\ \A a, b \in KeysOf(spec) :
                Before(a, b) =>
                  \E m, n \in 1..Len(idx) :
                    /\ m < n
                    /\ idx[m].path = PathAt(spec, a)
                    /\ idx[m].method = MethodAt(spec, a)
                    /\ idx[n].path = PathAt(spec, b)
                    /\ idx[n].method = MethodAt(spec, b)
      /\ (html.ok /\ searchIndex.ok) =>
           \A n \in 1..Len(ids) : ids[n] = idx[n].slug

\* A spec whose keys are not in alphabetical order, /users before /A'< and
\* post before get under each: the page and the index keep that order.
C14_Witness ==
  /\ html.ok /\ searchIndex.ok
  /\ Len(PathEntries(spec)) = 2
  /\ PathAt(spec, <<1, 1>>) = PathUsers /\ PathAt(spec, <<2, 1>>) = PathHot
  /\ \A i \in 1..2 :
       /\ Len(PathEntries(spec)[i].methods) = 2
       /\ MethodAt(spec, <<i, 1>>) = MethodPost
       /\ MethodAt(spec, <<i, 2>>) = MethodGet
  /\ AnchorIds(html.value, BlockClose) =
       << <<"-", "u", "s", "e", "r", "s", "-", "p", "o", "s", "t">>,
          <<"-", "u", "s", "e", "r", "s", "-", "g", "e", "t">>,
          <<"-", "a", "-", "-", "-", "p", "o", "s", "t">>,
          <<"-", "a", "-", "-", "-", "g", "e", "t">> >>
  /\ [n \in 1..4 |-> <<searchIndex.value.index[n].path,
                        searchIndex.value.index[n].method>>] =
       << <<PathUsers, MethodPost>>, <<PathUsers, MethodGet>>,
          <<PathHot, MethodPost>>, <<PathHot, MethodGet>> >>

(***************************************************************************)
(* generateDocs and the output directory.                                  *)
(***************************************************************************)
\* What is thrown by readFileSync on a missing file, by JSON.parse and
\* yaml.parse on text they cannot decode, and by generateHTML.
ReadDecodeRenderErrors ==
  {"ENOENT", "SyntaxError", "YAMLParseError", "TypeError"}

\* C15: generateDocs creates no directory and writes no file until the input
\* is read and decoded and the page is rendered: while it parses and
\* renders, and when the input has failed because the file is missing, the
\* content does not decode or rendering throws, the output directory is as
\* it was when the input was taken up.
C15_NoWriteBeforeRendered ==
  /\ pc \in {"parseSpec", "generateHTML"} => fs = fsBefore /\ written = {}
  /\ (pc \in {"catch", "exited"} /\ error \in ReadDecodeRenderErrors) =>
       fs = fsBefore /\ written = {}

\* The run has ended on a second input that could not be read, decoded or
\* rendered, after a first input whose files were written: the directory
\* holds what the first input left.
C15_Witness ==
  /\ pc = "exited"
  /\ exitCode = 1
  /\ error \in ReadDecodeRenderErrors
  /\ k = 2
  /\ Logged(Event("Generated", 1))
  /\ fs = fsBefore
  /\ fs # fs0
  /\ fs.index # <<>>

====
